---- MODULE Spec2Model ----
(***************************************************************************)
(* Quiz ingestion and answer-resolution pipeline.                          *)
(*                                                                         *)
(*   aiOrchestrator  (services/ai/aiOrchestrator.service.ts)               *)
(*   BaseProvider and the four provider adapters (services/ai/providers)   *)
(*   GlobalQuestion cache (models/globalQuestion.model.ts)                 *)
(*   quiz worker processQuizDocument (workers/quiz.worker.ts)              *)
(*   quizService.createFromUpload (services/quiz.service.ts)               *)
(*                                                                         *)
(* SpecOrch : one call of aiOrchestrator.solveQuestions, step by step.     *)
(* Spec     : uploads, the queue and the worker running whole jobs.        *)
(***************************************************************************)
EXTENDS Integers, Sequences, FiniteSets, TLC

\* ------------------------------------------------------------------------
\* Bounds of the model
\* ------------------------------------------------------------------------

\* longest question list handed to one solveQuestions call
MaxQuestions == 3

\* ------------------------------------------------------------------------
\* Program constants
\* ------------------------------------------------------------------------

\* const { enableCache = true, maxRetries = 2 } = options
maxRetries == 2

\* const BATCH_SIZE = 30 in the source; scaled down to 2 so that a list of
\* MaxQuestions questions is split into more than one chunk.
BATCH_SIZE == 2

\* providers array of callProvidersWithFallback, in priority order
providers == <<"Gemini", "GitHub", "Groq", "HuggingFace">>

ProviderNames == {providers[i] : i \in 1..Len(providers)}

\* BaseProvider.rateLimitRemaining starts at Infinity
Infinity == 1000000

\* ------------------------------------------------------------------------
\* Generic helpers on sequences
\* ------------------------------------------------------------------------

Range(s) == {s[i] : i \in 1..Len(s)}

\* an absent optional field
Undefined == "undefined"

RECURSIVE SeqFilterIdx(_, _)
\* s.filter(q => !drop.has(q.index))
SeqFilterIdx(s, drop) ==
    IF s = <<>> THEN <<>>
    ELSE IF Head(s).index \in drop
         THEN SeqFilterIdx(Tail(s), drop)
         ELSE <<Head(s)>> \o SeqFilterIdx(Tail(s), drop)

RECURSIVE Includes(_, _)
\* Array.prototype.includes
Includes(s, x) ==
    IF s = <<>> THEN FALSE
    ELSE IF Head(s) = x THEN TRUE ELSE Includes(Tail(s), x)

RECURSIVE InsertByIndex(_, _)
InsertByIndex(r, sorted) ==
    IF sorted = <<>> THEN <<r>>
    ELSE IF r.index < Head(sorted).index
         THEN <<r>> \o sorted
         ELSE <<Head(sorted)>> \o InsertByIndex(r, Tail(sorted))

RECURSIVE SortByIndex(_)
\* responses.sort((a, b) => a.index - b.index): stable insertion from the
\* back keeps equal indices in their original order
SortByIndex(s) ==
    IF s = <<>> THEN <<>>
    ELSE LET rest == SortByIndex(Tail(s))
             r    == Head(s)
         IN  IF rest = <<>> \/ r.index <= Head(rest).index
             THEN <<r>> \o rest
             ELSE InsertByIndex(r, rest)

\* ------------------------------------------------------------------------
\* Questions and cache keys
\* ------------------------------------------------------------------------

\* stems as the parser delivers them
Stems == {"What is X?", "what is x", "System: define Y"}

\* normalizeStem: lowercase, strip numbering, whitespace and every
\* character that is not a letter or digit
normalizeStem(stem) ==
    CASE stem = "What is X?" -> "whatisx"
      [] stem = "what is x"  -> "whatisx"
      [] stem = "System: define Y" -> "systemdefiney"
      [] OTHER               -> stem

\* the choice texts of every modelled question: A. "Yes"  B. "no"
ChoiceTexts == <<[key |-> "A", text |-> "Yes"], [key |-> "B", text |-> "no"]>>

\* c.text.toLowerCase().replace(/\s+/g, "")
LowerNoSpace(text) ==
    CASE text = "Yes" -> "yes"
      [] text = "no"  -> "no"
      [] OTHER        -> text

RECURSIVE JoinBar(_)
JoinBar(s) ==
    IF s = <<>> THEN <<>>
    ELSE IF Len(s) = 1 THEN <<LowerNoSpace(s[1].text)>>
    ELSE <<LowerNoSpace(s[1].text), "|">> \o JoinBar(Tail(s))

\* normalizeChoices: sort by key, lowercase and strip the texts, join by "|"
\* (the modelled choice lists are already in key order)
normalizeChoices(choices) == JoinBar(choices)

\* hashString: MD5 hex digest, taken to be collision free
hashString(input) == <<"md5", input>>

CacheKey(q) ==
    [stemHash    |-> hashString(normalizeStem(q.stem)),
     choicesHash |-> hashString(normalizeChoices(q.choices))]

CacheKeys ==
    {[stemHash    |-> hashString(normalizeStem(s)),
      choicesHash |-> hashString(normalizeChoices(ChoiceTexts))] : s \in Stems}

\* ------------------------------------------------------------------------
\* Strings as sequences of characters
\* ------------------------------------------------------------------------

WhiteSpace == {" ", "\t", "\n"}
Digits == {"0", "1", "2", "3", "4", "5", "6", "7", "8", "9"}
LowerCase == {"a", "b", "c", "d", "g", "h", "i", "l", "n", "o", "u"}
UpperCase == {"A", "B", "C", "D", "G", "H", "I", "L", "N", "O", "U"}
\* the class [A-ZÀ-Ỹ] under the i flag
LetterChars == LowerCase \cup UpperCase

ToUpper(c) ==
    CASE c = "a" -> "A" [] c = "b" -> "B" [] c = "c" -> "C" [] c = "d" -> "D"
      [] c = "g" -> "G" [] c = "h" -> "H" [] c = "i" -> "I" [] c = "l" -> "L"
      [] c = "n" -> "N" [] c = "o" -> "O" [] c = "u" -> "U"
      [] OTHER   -> c

toUpperCase(s) == [i \in 1..Len(s) |-> ToUpper(s[i])]

Drop(s, n) == SubSeq(s, n + 1, Len(s))

StartsWith(s, p) == Len(s) >= Len(p) /\ SubSeq(s, 1, Len(p)) = p

RECURSIVE SpanLen(_, _)
\* length of the longest prefix of s made of characters of set
SpanLen(s, set) ==
    IF s # <<>> /\ Head(s) \in set THEN 1 + SpanLen(Tail(s), set) ELSE 0

RECURSIVE TrimRight(_)
TrimRight(s) ==
    IF s # <<>> /\ s[Len(s)] \in WhiteSpace
    THEN TrimRight(SubSeq(s, 1, Len(s) - 1)) ELSE s

\* String.prototype.trim
Trim(s) == TrimRight(Drop(s, SpanLen(s, WhiteSpace)))

\* ------------------------------------------------------------------------
\* Prompts: texts as sequences of words
\* ------------------------------------------------------------------------

\* the words of a stem or choice text, split at white space
Words(text) ==
    CASE text = "What is X?"       -> <<"What", "is", "X?">>
      [] text = "what is x"        -> <<"what", "is", "x">>
      [] text = "System: define Y" -> <<"System:", "define", "Y">>
      [] OTHER                     -> <<text>>

\* the i flag of the injection patterns: words compare in lower case
LowerWord(word) ==
    CASE word = "System:" -> "system:"
      [] word = "What"    -> "what"
      [] word = "X?"      -> "x?"
      [] word = "Y"       -> "y"
      [] word = "Yes"     -> "yes"
      [] OTHER            -> word

RECURSIVE ChoiceLines(_)
\* lines.push(`  ${c.key}. ${c.text}`)
ChoiceLines(choices) ==
    IF choices = <<>> THEN <<>>
    ELSE <<Head(choices).key \o ".">> \o Words(Head(choices).text)
             \o ChoiceLines(Tail(choices))

RECURSIVE QuestionLines(_)
\* lines.push(`[${q.index}] ${q.stem}`) and the choice lines of each question
QuestionLines(qs) ==
    IF qs = <<>> THEN <<>>
    ELSE <<"[" \o ToString(Head(qs).index) \o "]">> \o Words(Head(qs).stem)
             \o ChoiceLines(Head(qs).choices) \o QuestionLines(Tail(qs))

\* BaseProvider.buildPrompt: the fixed instructions (one word here), then
\* the questions
buildPrompt(qs) == <<"QUESTIONS:">> \o QuestionLines(qs)

\* GitHubProvider.buildQuestionsOnlyPrompt: the instructions travel in the
\* system message, the user message holds the questions only
buildQuestionsOnlyPrompt(qs) == QuestionLines(qs)

\* the prompt provider p transmits for a batch
PromptOf(p, qs) ==
    IF p = "GitHub" THEN buildQuestionsOnlyPrompt(qs) ELSE buildPrompt(qs)

MAX_PROMPT_CHARS == 50000

FILTERED == "[FILTERED]"

\* INJECTION_PATTERNS: the number of words pattern n matches at the head of
\* text, 0 when it does not match there
PatternLen(n, text) ==
    LET w(i) == IF i <= Len(text) THEN LowerWord(text[i]) ELSE ""
    IN  CASE n = 1 ->
               IF w(1) = "ignore" /\ w(2) \in {"previous", "above", "prior"}
               THEN 2
               ELSE IF w(1) = "ignore" /\ w(2) = "all"
                       /\ w(3) \in {"previous", "above", "prior"}
                    THEN 3 ELSE 0
          [] n = 2 ->
               IF w(1) = "forget"
                  /\ w(2) \in {"everything", "all", "instructions"}
               THEN 2 ELSE 0
          [] n = 3 ->
               IF w(1) = "disregard" /\ w(2) \in {"all", "previous"}
               THEN 2 ELSE 0
          [] n = 4 ->
               IF w(1) = "new" /\ w(2) \in {"instruction:", "instructions:"}
               THEN 2 ELSE 0
          [] n = 5 ->
               IF w(1) = "system:" THEN 1
               ELSE IF w(1) = "system" /\ w(2) = ":" THEN 2 ELSE 0
          [] OTHER -> 0

RECURSIVE ReplacePattern(_, _)
\* sanitized.replace(pattern, "[FILTERED]") with the g flag
ReplacePattern(n, text) ==
    IF text = <<>> THEN <<>>
    ELSE LET l == PatternLen(n, text)
         IN  IF l > 0
             THEN <<FILTERED>> \o ReplacePattern(n, Drop(text, l))
             ELSE <<Head(text)>> \o ReplacePattern(n, Tail(text))

\* sanitizePrompt: text.slice(0, MAX_PROMPT_CHARS), then every pattern in
\* turn (a word counts for at least one character, so a text of at most
\* MAX_PROMPT_CHARS words is the only kind the slice can leave whole)
sanitizePrompt(text) ==
    LET sliced == SubSeq(text, 1, IF Len(text) < MAX_PROMPT_CHARS
                                  THEN Len(text) ELSE MAX_PROMPT_CHARS)
    IN  ReplacePattern(5, ReplacePattern(4, ReplacePattern(3,
            ReplacePattern(2, ReplacePattern(1, sliced)))))

\* ------------------------------------------------------------------------
\* sanitizeSection (quiz worker)
\* ------------------------------------------------------------------------

CLO == <<"C", "L", "O">>

\* "Nội dung chung", written without diacritics
DefaultSection ==
    <<"N", "o", "i", " ", "d", "u", "n", "g", " ", "c", "h", "u", "n", "g">>

RECURSIVE ClRun(_)
\* number of leading "CL" pairs
ClRun(s) ==
    IF StartsWith(s, <<"C", "L">>) THEN 1 + ClRun(Drop(s, 2)) ELSE 0

\* s.replace(/^(CL)+CLO/i, "CLO") on an upper-cased s: the greedy group
\* backtracks to the largest number of pairs that is followed by CLO
FixClClo(s) ==
    LET ks == {k \in 1..ClRun(s) : StartsWith(Drop(s, 2 * k), CLO)}
    IN  IF ks = {} THEN s
        ELSE LET k == CHOOSE x \in ks : \A y \in ks : y <= x
             IN  CLO \o Drop(s, 2 * k + 3)

\* s.replace(/^CLO\s+CLO/i, "CLO")
FixCloClo(s) ==
    IF StartsWith(s, CLO)
    THEN LET w == SpanLen(Drop(s, 3), WhiteSpace)
         IN  IF w >= 1 /\ StartsWith(Drop(s, 3 + w), CLO)
             THEN CLO \o Drop(s, 3 + w + 3)
             ELSE s
    ELSE s

\* const majorMatch = s.match(/^([A-ZÀ-Ỹ]+\s*\d+)/i); s = majorMatch[1]
MajorOnly(s) ==
    LET l == SpanLen(s, LetterChars)
        w == SpanLen(Drop(s, l), WhiteSpace)
        d == SpanLen(Drop(s, l + w), Digits)
    IN  IF l >= 1 /\ d >= 1 THEN SubSeq(s, 1, l + w + d) ELSE s

\* s.replace(/^([A-ZÀ-Ỹ]+)(\d+)$/i, "$1 $2")
NormalizeSpacing(s) ==
    LET l == SpanLen(s, LetterChars)
        d == SpanLen(Drop(s, l), Digits)
    IN  IF l >= 1 /\ d >= 1 /\ l + d = Len(s)
        THEN SubSeq(s, 1, l) \o <<" ">> \o Drop(s, l)
        ELSE s

sanitizeSection(raw) ==
    LET s0 == toUpperCase(Trim(raw))
        s1 == FixCloClo(FixClClo(s0))
        s2 == NormalizeSpacing(MajorOnly(s1))
        s3 == Trim(s2)
    IN  IF s3 = <<>> THEN DefaultSection ELSE s3

\* ------------------------------------------------------------------------
\* Uploaded documents and documentService
\* ------------------------------------------------------------------------

\* number of uploads in one behaviour
MaxUploads == 2

ParsedChoices(a, b) ==
    <<[key |-> "A", text |-> "Yes", isVisuallyMarked |-> a],
      [key |-> "B", text |-> "no", isVisuallyMarked |-> b]>>

SmartQuestion(stem, a, b, section) ==
    [stem |-> stem, choices |-> ParsedChoices(a, b), section |-> section]

\* The documents a user may upload. html: the SmartQuestion list that the
\* block loop of parseDocx extracts from the HTML; raw: the list that
\* parseUniversalTextStickySection extracts from the raw text (no visual
\* marks there); readable = FALSE: the file cannot be opened or converted.
Docs ==
    {[hash |-> "h1", ext |-> ".docx", readable |-> TRUE,
      html |-> <<SmartQuestion("What is X?", TRUE, FALSE, CLO \o <<" ", "1">>),
                 SmartQuestion("System: define Y", FALSE, FALSE,
                               DefaultSection)>>,
      raw  |-> <<>>],
     [hash |-> "h2", ext |-> ".docx", readable |-> TRUE,
      html |-> <<>>,
      raw  |-> <<SmartQuestion("what is x", FALSE, FALSE, DefaultSection)>>],
     [hash |-> "h3", ext |-> ".pdf", readable |-> TRUE,
      html |-> <<>>, raw |-> <<>>],
     [hash |-> "h4", ext |-> ".docx", readable |-> FALSE,
      html |-> <<>>, raw |-> <<>>]}

NoDoc == [hash |-> "none", ext |-> "", readable |-> FALSE,
          html |-> <<>>, raw |-> <<>>]

RECURSIVE FindMarked(_)
\* q.choices.find(c => c.isVisuallyMarked); <<>> stands for undefined
FindMarked(choices) ==
    IF choices = <<>> THEN <<>>
    ELSE IF Head(choices).isVisuallyMarked THEN <<Head(choices)>>
         ELSE FindMarked(Tail(choices))

\* the questions of the ParsedDocument returned by parseDocx
DocxQuestions(results) ==
    [i \in 1..Len(results) |->
        LET q == results[i]
            markedChoice == FindMarked(q.choices)
        IN  [index |-> i, stem |-> q.stem, choices |-> q.choices,
             section |-> q.section,
             correctAnswerKey |-> IF markedChoice = <<>> THEN ""
                                  ELSE markedChoice[1].key,
             source |-> IF markedChoice = <<>> THEN "AI_Generated"
                        ELSE "StyleDetected"]]

\* the questions of the ParsedDocument returned by parsePdf and parseTxt
PlainQuestions(results) ==
    [i \in 1..Len(results) |->
        LET q == results[i]
        IN  [index |-> i, stem |-> q.stem, choices |-> q.choices,
             section |-> q.section, correctAnswerKey |-> "",
             source |-> "AI_Generated"]]

\* documentService.parseGenericDocument on a file that could be read: the
\* switch on the extension, and in parseDocx the fall back to the raw text
\* when the HTML gave no question
parseGenericDocument(doc) ==
    IF doc.ext \in {".docx", ".doc", ".odt"}
    THEN DocxQuestions(IF Len(doc.html) = 0 THEN doc.raw ELSE doc.html)
    ELSE PlainQuestions(doc.raw)

\* does parseGenericDocument throw: unsupported extension, or the file is
\* missing or cannot be read or converted
ParserThrows(doc, exists) ==
    \/ ~exists
    \/ ~doc.readable
    \/ doc.ext \notin {".pdf", ".docx", ".doc", ".odt", ".txt", ".rtf"}

\* ------------------------------------------------------------------------
\* The sticky-section parsers on documents given as sequences of paragraphs
\* ------------------------------------------------------------------------

\* longest document, in paragraphs
MaxTokens == 3

\* if (cleanedBlock.length < 10) continue
MinBlockLen == 10

\* the heading texts: "CLO 1" and "Bài 2.1" (written without diacritics)
HeadingRaws == {CLO \o <<" ", "1">>, <<"B", "a", "i", " ", "2", ".", "1">>}

\* a question paragraph "Câu n: What is X? A. Yes B. no"; a, b: the choice
\* is visually marked in the .docx (bold, underline, colour, highlight)
QuestionToken(a, b) ==
    [kind |-> "question", raw |-> <<>>, paren |-> FALSE, a |-> a, b |-> b]

\* a heading paragraph: raw, or "(" raw ")" when paren
HeadingToken(raw, paren) ==
    [kind |-> "heading", raw |-> raw, paren |-> paren,
     a |-> FALSE, b |-> FALSE]

DocTokens ==
    {QuestionToken(a, b) : a, b \in BOOLEAN}
        \cup {HeadingToken(r, p) : r \in HeadingRaws, p \in BOOLEAN}

Documents == UNION {[1..n -> DocTokens] : n \in 0..MaxTokens}

RECURSIVE SplitAcc(_, _)
SplitAcc(tokens, cur) ==
    IF tokens = <<>> THEN <<cur>>
    ELSE IF Head(tokens).kind = "question"
         THEN <<cur>> \o SplitAcc(Tail(tokens), <<Head(tokens)>>)
         ELSE SplitAcc(Tail(tokens), Append(cur, Head(tokens)))

\* text.split(questionSplitRegex): the look-ahead cuts in front of every
\* question marker, so a block is a question with all that follows it up to
\* the next question; the first block is what stands before the first
\* question (empty, and then skipped for its length, when nothing does)
SplitBlocks(tokens) == SplitAcc(tokens, <<>>)

RECURSIVE HeadingChars(_, _)
\* the characters of a block of heading paragraphs, each paragraph wrapped
\* in wrap characters of markup
HeadingChars(block, wrap) ==
    IF block = <<>> THEN 0
    ELSE Len(Head(block).raw) + (IF Head(block).paren THEN 2 ELSE 0) + wrap
             + HeadingChars(Tail(block), wrap)

\* cleanedBlock.length >= 10; a question paragraph alone is longer than
\* that. sep: characters between two paragraphs
LongEnough(block, wrap, sep) ==
    \/ \E i \in 1..Len(block) : block[i].kind = "question"
    \/ /\ block # <<>>
       /\ HeadingChars(block, wrap) + sep * (Len(block) - 1) >= MinBlockLen

\* rawSection = match[0].toUpperCase();
\* majorOnly = rawSection.match(/^([A-ZÀ-Ỹ]+\s*\d+)/i);
\* currentSection = majorOnly ? majorOnly[1].trim() : rawSection
MajorSection(raw) ==
    LET rawSection == toUpperCase(raw)
        majorOnly  == MajorOnly(rawSection)
        l == SpanLen(rawSection, LetterChars)
        d == SpanLen(Drop(rawSection,
                          l + SpanLen(Drop(rawSection, l), WhiteSpace)),
                     Digits)
    IN  IF l >= 1 /\ d >= 1 THEN Trim(majorOnly) ELSE rawSection

\* String.prototype.match: the first heading paragraph of block (the first
\* parenthesised one when parenOnly), as a sequence of at most one element
FirstHeading(block, parenOnly) ==
    LET is == {i \in 1..Len(block) :
                  /\ block[i].kind = "heading"
                  /\ parenOnly => block[i].paren}
    IN  IF is = {} THEN <<>>
        ELSE <<block[CHOOSE i \in is : \A j \in is : i <= j]>>

\* the section update of parseWithPdfjsStickySection and
\* parseUniversalTextStickySection: a heading at the very start of the
\* block, else a parenthesised heading anywhere in the block
TextSection(block, currentSection) ==
    IF block[1].kind = "heading" /\ ~block[1].paren
    THEN MajorSection(block[1].raw)
    ELSE LET cloInBlock == FirstHeading(block, TRUE)
         IN  IF cloInBlock # <<>> THEN MajorSection(cloInBlock[1].raw)
             ELSE currentSection

\* the section update of parseDocx: plainText.match(SECTION_REGEX), the
\* first heading anywhere in the block
HtmlSection(block, currentSection) ==
    LET sectionMatch == FirstHeading(block, FALSE)
    IN  IF sectionMatch # <<>> THEN MajorSection(sectionMatch[1].raw)
        ELSE currentSection

\* parseQuestionBlock: null (here <<>>) without a choice "A."; no visual
\* marks in plain text. The text of headings that follow the question in
\* its block is appended to the last choice text by the source; choice
\* texts are kept as written here.
parseQuestionBlock(block, section) ==
    IF block[1].kind = "question"
    THEN <<SmartQuestion("What is X?", FALSE, FALSE, section)>>
    ELSE <<>>

\* parseHtmlQuestionBlock: the same with isVisuallyMarked per choice
parseHtmlQuestionBlock(block, section) ==
    IF block[1].kind = "question"
    THEN <<SmartQuestion("What is X?", block[1].a, block[1].b, section)>>
    ELSE <<>>

RECURSIVE TextBlockLoop(_, _)
\* for (const block of blocks) of the two text parsers
TextBlockLoop(blocks, currentSection) ==
    IF blocks = <<>> THEN <<>>
    ELSE LET block == Head(blocks)
         IN  IF ~LongEnough(block, 0, 1)
             THEN TextBlockLoop(Tail(blocks), currentSection)
             ELSE LET section == TextSection(block, currentSection)
                  IN  parseQuestionBlock(block, section)
                          \o TextBlockLoop(Tail(blocks), section)

RECURSIVE HtmlBlockLoop(_, _)
\* for (const block of blocks) of parseDocx; every paragraph is wrapped in
\* <p> and </p>
HtmlBlockLoop(blocks, currentSection) ==
    IF blocks = <<>> THEN <<>>
    ELSE LET block == Head(blocks)
         IN  IF ~LongEnough(block, 7, 0)
             THEN HtmlBlockLoop(Tail(blocks), currentSection)
             ELSE LET section == HtmlSection(block, currentSection)
                  IN  parseHtmlQuestionBlock(block, section)
                          \o HtmlBlockLoop(Tail(blocks), section)

parseWithPdfjsStickySection(tokens) ==
    TextBlockLoop(SplitBlocks(tokens), DefaultSection)

parseUniversalTextStickySection(tokens) ==
    TextBlockLoop(SplitBlocks(tokens), DefaultSection)

parsePdf(tokens) == PlainQuestions(parseWithPdfjsStickySection(tokens))

parseTxt(tokens) == PlainQuestions(parseUniversalTextStickySection(tokens))

parseDocx(tokens) ==
    LET results == HtmlBlockLoop(SplitBlocks(tokens), DefaultSection)
    IN  DocxQuestions(IF Len(results) = 0
                      THEN parseUniversalTextStickySection(tokens)
                      ELSE results)

\* ------------------------------------------------------------------------
\* processQuizDocument: the synchronous parts
\* ------------------------------------------------------------------------

\* step 2: questionsForAI
questionsForAI(parsed) ==
    [i \in 1..Len(parsed) |->
        [index |-> i, stem |-> parsed[i].stem,
         choices |-> [c \in 1..Len(parsed[i].choices) |->
                         [key |-> parsed[i].choices[c].key,
                          text |-> parsed[i].choices[c].text]],
         section |-> parsed[i].section]]

\* variant of MapGet that takes the response at position index of the list
MapGetByPosition(responses, index) ==
    IF index <= Len(responses) THEN <<responses[index]>> ELSE <<>>

RECURSIVE MapGet(_, _)
\* new Map(responses.map(r => [r.index, r])).get(index): the last response
\* with that index wins; <<>> stands for undefined
MapGet(responses, index) ==
    IF responses = <<>> THEN <<>>
    ELSE LET later == MapGet(Tail(responses), index)
         IN  IF later # <<>> THEN later
             ELSE IF Head(responses).index = index THEN <<Head(responses)>>
             ELSE <<>>

\* variant of correctAnswerKeyOf in which an orchestrator answer wins over
\* the visual mark
correctAnswerKeyAiFirst(hasVisualMark, visualKey, aiKey) ==
    IF aiKey # "" THEN aiKey
    ELSE IF hasVisualMark THEN visualKey ELSE "A"

\* variant of correctAnswerKeyOf without the fallback literal
correctAnswerKeyNoFallback(hasVisualMark, visualKey, aiKey) ==
    IF hasVisualMark THEN visualKey ELSE aiKey

\* hasVisualMark ? q.correctAnswerKey
\*               : (aiResponse?.correctKey?.toUpperCase() || "A")
correctAnswerKeyOf(hasVisualMark, visualKey, aiKey) ==
    IF hasVisualMark THEN visualKey
    ELSE IF aiKey # "" THEN aiKey ELSE "A"

\* step 4: finalQuestions
finalQuestions(parsed, responses) ==
    [i \in 1..Len(parsed) |->
        LET q == parsed[i]
            aiResponse == MapGet(responses, i)
            hasVisualMark == q.correctAnswerKey # ""
            aiKey == IF aiResponse = <<>> THEN ""
                     ELSE ToUpper(aiResponse[1].correctKey)
        IN  [stem |-> q.stem,
             choices |-> q.choices,
             correctAnswerKey |->
                 correctAnswerKeyOf(hasVisualMark, q.correctAnswerKey, aiKey),
             explanation |->
                 IF aiResponse = <<>> \/ aiResponse[1].explanation = Undefined
                 THEN "" ELSE aiResponse[1].explanation,
             source |-> IF hasVisualMark THEN "StyleDetected"
                        ELSE "AI_Generated",
             section |-> sanitizeSection(q.section)]]

RECURSIVE SectionNames(_)
\* Object.keys(tempCounts): the section names in order of first appearance
SectionNames(final) ==
    IF final = <<>> THEN <<>>
    ELSE LET init == SectionNames(SubSeq(final, 1, Len(final) - 1))
             name == final[Len(final)].section
         IN  IF Includes(init, name) THEN init ELSE Append(init, name)

\* variant of sectionCounts that gives every section the number of all
\* questions
sectionCountsTotal(final) ==
    LET names == SectionNames(final)
    IN  [n \in 1..Len(names) |-> [name |-> names[n], count |-> Len(final)]]

\* step 5: sectionCounts
sectionCounts(final) ==
    LET names == SectionNames(final)
    IN  [n \in 1..Len(names) |->
            [name |-> names[n],
             count |-> Cardinality({i \in 1..Len(final) :
                                       final[i].section = names[n]})]]

\* ------------------------------------------------------------------------
\* State
\* ------------------------------------------------------------------------

VARIABLES
    \* GlobalQuestion collection: cache key -> entry, or NoEntry
    cache,
    \* BaseProvider.apiKeys.length > 0 per provider (set once from the
    \* environment by the constructors)
    apiKeys,
    \* BaseProvider.rateLimitRemaining per provider
    rateLimitRemaining,
    \* position inside solveQuestions / callProvidersWithFallback
    oPc,
    \* solveQuestions: the questions argument and the cache-loop position
    questions, qi,
    \* solveQuestions locals
    uncachedQuestions, cachedAnswers, result,
    \* solveQuestions: number of the chunk being processed
    chunkNo,
    \* callProvidersWithFallback locals: remainingQuestions, responses,
    \* providersUsed, totalTokens, provider position, retries
    cp,
    \* the latest provider.solveBatch invocation of the current call:
    \* provider, indices of its batch, indices answered before it was made,
    \* number of the chunk, and how it ended
    lastCall,
    \* indices for which some solveBatch of the current call has returned
    \* an answer
    answered,
    \* cache-store failures during the current call: indices whose lookup
    \* of an existing entry failed, and whether a bulkWrite failed
    cacheFaults,
    \* Quiz collection: quiz id -> record, or NoQuiz
    quizzes,
    \* local upload directory: path -> [exists, doc]
    files,
    \* quiz-processing queue: one job per quiz id
    jobs,
    \* number of upload requests handled so far
    uploads,
    \* GOOGLE_DRIVE_CLIENT_EMAIL and GOOGLE_DRIVE_FOLDER_ID are set
    driveConfigured,
    \* number of question edits (PUT /:id/questions/:qid) applied so far
    edits,
    \* one parseGenericDocument call on a document given by its paragraphs
    parse,
    \* one sanitizeSection call on a section label
    sect,
    \* the worker: the job it is running and its position in
    \* processQuizDocument
    w

orchVars == <<cache, apiKeys, rateLimitRemaining, oPc, questions, qi,
              uncachedQuestions, cachedAnswers, result, chunkNo, cp,
              lastCall, answered, cacheFaults>>

pipeVars ==
    <<quizzes, files, jobs, uploads, driveConfigured, edits, parse, sect, w>>

vars == <<orchVars, pipeVars>>

NoEntry == [present |-> FALSE]

NoFaults == [read |-> {}, write |-> FALSE]

NoSect == [pc |-> "none", label |-> <<>>, raw |-> <<>>, out |-> <<>>]

NoParse == [pc |-> "none", ext |-> "", tokens |-> <<>>, questions |-> <<>>]

\* nth: the calls of this provider for this chunk so far; total: the calls
\* of all providers for this chunk so far; prev: the place in `providers` of the
\* provider called before in the same chunk (0: none); slept: the
\* milliseconds of the setTimeout awaited after the call
NoCall == [provider |-> "none", batch |-> {}, answeredBefore |-> {},
           chunk |-> 0, outcome |-> "none", prompt |-> <<>>,
           nth |-> 0, total |-> 0, prev |-> 0, slept |-> 0]

\* const result: OrchestratorResult = { responses: [], ... } (duration is
\* wall-clock time and not modelled)
EmptyResult ==
    [responses |-> <<>>, providersUsed |-> <<>>, totalTokens |-> 0,
     cacheHits |-> 0, cacheMisses |-> 0, failedQuestions |-> 0]

\* locals of callProvidersWithFallback at entry
CpStart(chunk) ==
    [remainingQuestions |-> chunk, responses |-> <<>>,
     providersUsed |-> <<>>, totalTokens |-> 0, pi |-> 1, retries |-> 0]

CpIdle == CpStart(<<>>)

QuizIds == 1..MaxUploads

NoQuiz == [present |-> FALSE]

\* Quiz.create({...status: QuizStatus.Pending...}) with the schema defaults
NewQuiz(documentUrl, fileHash) ==
    [present |-> TRUE, status |-> "pending", questions |-> <<>>,
     totalQuestions |-> 0, processedQuestions |-> 0, sections |-> <<>>,
     sectionCounts |-> <<>>, documentUrl |-> documentUrl,
     fileHash |-> fileHash, isDeleted |-> FALSE]

\* `file://${path}` and a Drive webViewLink
FileUrl(path) == [scheme |-> "file", path |-> path]
DriveUrl(path) == [scheme |-> "drive", path |-> path]

NoFile == [exists |-> FALSE, doc |-> NoDoc]

\* errored: some run of the job went through the catch block
\* redelivered: how often the queue handed the job out again after the
\* process that ran it was shut down
NoJob == [state |-> "none", attemptsMade |-> 0, quizId |-> 0,
          documentUrl |-> FileUrl(0), errored |-> FALSE, redelivered |-> 0]

\* worker locals: job (0: none), pc, parsedDoc.questions, whether the Quiz
\* was loaded by findById; errorAt: the step of the current run that threw
WIdle == [job |-> 0, pc |-> "idle", parsed |-> <<>>, loaded |-> FALSE,
          errorAt |-> "none", cleanup |-> "none"]

\* the chunks built by the slicing loop of solveQuestions
ChunkCount(list) == (Len(list) + BATCH_SIZE - 1) \div BATCH_SIZE

\* variant of Chunk whose slices start one element early
ChunkOverlap(list, n) ==
    SubSeq(list, IF n = 1 THEN 1 ELSE (n - 1) * BATCH_SIZE,
           IF n * BATCH_SIZE < Len(list) THEN n * BATCH_SIZE ELSE Len(list))

\* uncachedQuestions.slice(i, i + BATCH_SIZE) for the n-th chunk
Chunk(list, n) ==
    SubSeq(list, (n - 1) * BATCH_SIZE + 1,
           IF n * BATCH_SIZE < Len(list) THEN n * BATCH_SIZE ELSE Len(list))

\* ------------------------------------------------------------------------
\* Provider adapters (BaseProvider)
\* ------------------------------------------------------------------------

\* JSON values a provider may put under a question index: here the string
\* "b" as a character sequence; Missing stands for an absent key
Missing == <<"missing">>
RawAnswers == {<<"b">>}

\* usage.total_tokens of one provider reply (HuggingFaceProvider always
\* reports tokensUsed = 0)
TokensPerReply == 1

TokensOf(p) == IF p = "HuggingFace" THEN 0 ELSE TokensPerReply

\* String(key).toUpperCase().substring(0, 1)
FirstUpper(raw) == IF raw = <<>> THEN "" ELSE ToUpper(raw[1])

RECURSIVE parseResponse(_, _)
\* BaseProvider.parseResponse, step 5: one response per question of the
\* batch whose index is a key of the parsed object with a truthy value
parseResponse(parsed, batch) ==
    IF batch = <<>> THEN <<>>
    ELSE LET q   == Head(batch)
             key == parsed[q.index]
         IN  IF key # Missing /\ key # <<>>
             THEN <<[index |-> q.index, correctKey |-> FirstUpper(key),
                     explanation |-> Undefined]>>
                  \o parseResponse(parsed, Tail(batch))
             ELSE parseResponse(parsed, Tail(batch))

\* BatchResult of a reply whose content parsed to `parsed`
BatchResult(parsed, tokensUsed, batch) ==
    LET responses == parseResponse(parsed, batch)
    IN  [responses |-> responses, tokensUsed |-> tokensUsed,
         questionsAnswered |-> Len(responses)]

\* emptyResult(questions.length)
emptyResult == [responses |-> <<>>, tokensUsed |-> 0, questionsAnswered |-> 0]

\* BaseProvider.isAvailable / HuggingFaceProvider.isAvailable
isAvailable(p) == apiKeys[p]

\* ------------------------------------------------------------------------
\* aiOrchestrator.checkCache and the cache phase of solveQuestions
\* ------------------------------------------------------------------------

RECURSIVE MapSet(_, _)
\* Map.prototype.set on an insertion-ordered map kept as a sequence
MapSet(m, e) ==
    IF m = <<>> THEN <<e>>
    ELSE IF Head(m).index = e.index THEN <<e>> \o Tail(m)
         ELSE <<Head(m)>> \o MapSet(Tail(m), e)

\* variant of LookupHit that returns the entry although the store failed
LookupHitStale(entry, storeOk) == entry.present

\* checkCache returns an answer: findOne found an entry and neither it nor
\* the updateOne on the hit counter threw
LookupHit(entry, storeOk) == entry.present /\ storeOk

\* One iteration of `for (const q of questions)`: checkCache(q) and the
\* bookkeeping that follows. storeOk = FALSE is a failing findOne or
\* updateOne, which the catch of checkCache turns into a miss.
CheckCache ==
    /\ oPc = "cache"
    /\ qi <= Len(questions)
    /\ LET q == questions[qi]
           k == CacheKey(q)
       IN  \E storeOk \in BOOLEAN :
             LET hit == LookupHit(cache[k], storeOk)
             IN  /\ cacheFaults' =
                      IF cache[k].present /\ ~storeOk
                      THEN [cacheFaults EXCEPT !.read = @ \cup {q.index}]
                      ELSE cacheFaults
                 /\ cache' = IF hit THEN [cache EXCEPT ![k].hitCount = @ + 1]
                                    ELSE cache
                 /\ IF hit
                    THEN /\ cachedAnswers' =
                              MapSet(cachedAnswers,
                                     [index |-> q.index,
                                      correctKey |-> cache[k].correctKey,
                                      explanation |-> cache[k].explanation])
                         /\ result' = [result EXCEPT !.cacheHits = @ + 1]
                         /\ UNCHANGED uncachedQuestions
                    ELSE /\ uncachedQuestions' = Append(uncachedQuestions, q)
                         /\ result' = [result EXCEPT !.cacheMisses = @ + 1]
                         /\ UNCHANGED cachedAnswers
    /\ qi' = qi + 1
    /\ UNCHANGED <<apiKeys, rateLimitRemaining, oPc, questions, chunkNo, cp,
                   lastCall, answered, pipeVars>>

\* variant of PushCache that never records the cache as a provider
PushCacheNever(used, size) == used

\* `if (cachedAnswers.size > 0) result.providersUsed.push("Cache")`
PushCache(used, size) ==
    IF size > 0 THEN Append(used, "Cache") ELSE used

\* After the cache loop: record "Cache" in providersUsed, build the chunks
\* and enter callProvidersWithFallback for the first one.
CachePhaseEnd ==
    /\ oPc = "cache"
    /\ qi > Len(questions)
    /\ result' = [result EXCEPT
                    !.providersUsed = PushCache(@, Len(cachedAnswers))]
    /\ IF Len(uncachedQuestions) > 0
       THEN /\ chunkNo' = 1
            /\ cp' = CpStart(Chunk(uncachedQuestions, 1))
            /\ oPc' = "provider"
       ELSE /\ oPc' = "assemble"
            /\ UNCHANGED <<chunkNo, cp>>
    /\ UNCHANGED <<cache, apiKeys, rateLimitRemaining, questions, qi,
                   uncachedQuestions, cachedAnswers, lastCall, answered,
                   cacheFaults, pipeVars>>

\* ------------------------------------------------------------------------
\* aiOrchestrator.callProvidersWithFallback
\* ------------------------------------------------------------------------

IndexSet(s) == {s[i].index : i \in 1..Len(s)}

\* `for (const provider of providers)` is over, or
\* `if (remainingQuestions.length === 0) break`
ProviderLoopExit ==
    /\ oPc = "provider"
    /\ \/ cp.pi > Len(providers)
       \/ Len(cp.remainingQuestions) = 0
    /\ oPc' = "chunkDone"
    /\ UNCHANGED <<cache, apiKeys, rateLimitRemaining, questions, qi,
                   uncachedQuestions, cachedAnswers, result, chunkNo, cp,
                   lastCall, answered, cacheFaults, pipeVars>>

\* `if (!isAvailable) continue`
ProviderSkip ==
    /\ oPc = "provider"
    /\ cp.pi <= Len(providers)
    /\ Len(cp.remainingQuestions) > 0
    /\ ~isAvailable(providers[cp.pi])
    /\ cp' = [cp EXCEPT !.pi = @ + 1]
    /\ UNCHANGED <<cache, apiKeys, rateLimitRemaining, oPc, questions, qi,
                   uncachedQuestions, cachedAnswers, result, chunkNo,
                   lastCall, answered, cacheFaults, pipeVars>>

\* the provider is available: `let retries = 0` and the first test of the
\* while condition (maxRetries > 0 and remainingQuestions is not empty)
ProviderEnter ==
    /\ oPc = "provider"
    /\ cp.pi <= Len(providers)
    /\ Len(cp.remainingQuestions) > 0
    /\ isAvailable(providers[cp.pi])
    /\ cp' = [cp EXCEPT !.retries = 0]
    /\ oPc' = IF 0 < maxRetries THEN "call" ELSE "provider"
    /\ UNCHANGED <<cache, apiKeys, rateLimitRemaining, questions, qi,
                   uncachedQuestions, cachedAnswers, result, chunkNo,
                   lastCall, answered, cacheFaults, pipeVars>>

\* variant of RemoveAnswered that keeps every question
RemoveAnsweredNone(remaining, responses) == remaining

\* remainingQuestions.filter(q => !answeredIndices.has(q.index))
RemoveAnswered(remaining, responses) ==
    SeqFilterIdx(remaining, IndexSet(responses))

\* the place of a provider in the list `providers`
PlaceOf(name) == CHOOSE i \in 1..Len(providers) : providers[i] = name

\* variant of AfterSolveBatch whose while loop has no retry limit
AfterSolveBatchNoLimit(res, rl) ==
    IF res.questionsAnswered > 0
    THEN /\ cp' = [cp EXCEPT
                     !.responses = @ \o res.responses,
                     !.providersUsed = Append(@, providers[cp.pi]),
                     !.totalTokens = @ + res.tokensUsed,
                     !.remainingQuestions = RemoveAnswered(@, res.responses),
                     !.pi = @ + 1]
         /\ oPc' = "provider"
    ELSE IF rl = 0
    THEN /\ cp' = [cp EXCEPT !.pi = @ + 1]
         /\ oPc' = "provider"
    ELSE /\ cp' = cp
         /\ oPc' = "call"

\* variant of AfterSolveBatch that does not look at the rate limit status
AfterSolveBatchIgnoreLimit(res, rl) ==
    IF res.questionsAnswered > 0
    THEN /\ cp' = [cp EXCEPT
                     !.responses = @ \o res.responses,
                     !.providersUsed = Append(@, providers[cp.pi]),
                     !.totalTokens = @ + res.tokensUsed,
                     !.remainingQuestions = RemoveAnswered(@, res.responses),
                     !.pi = @ + 1]
         /\ oPc' = "provider"
    ELSE IF cp.retries + 1 < maxRetries
    THEN /\ cp' = [cp EXCEPT !.retries = @ + 1]
         /\ oPc' = "call"
    ELSE /\ cp' = [cp EXCEPT !.retries = @ + 1, !.pi = @ + 1]
         /\ oPc' = "provider"

\* retries++; if (retries < maxRetries) await setTimeout(1000 * retries):
\* the milliseconds slept after a call, 0 when the loop is left before
SleepAfter(res, rl) ==
    IF res.questionsAnswered > 0 \/ rl = 0 THEN 0
    ELSE IF cp.retries + 1 < maxRetries THEN 1000 * (cp.retries + 1) ELSE 0

\* The body of the while loop for a reply `res` of solveBatch, with `rl`
\* the provider's rateLimitRemaining after the call.
AfterSolveBatch(res, rl) ==
    IF res.questionsAnswered > 0
    THEN \* accept, remove the answered questions, break
         /\ cp' = [cp EXCEPT
                     !.responses = @ \o res.responses,
                     !.providersUsed = Append(@, providers[cp.pi]),
                     !.totalTokens = @ + res.tokensUsed,
                     !.remainingQuestions = RemoveAnswered(@, res.responses),
                     !.pi = @ + 1]
         /\ oPc' = "provider"
    ELSE IF rl = 0
    THEN \* rate limited: break without retry
         /\ cp' = [cp EXCEPT !.pi = @ + 1]
         /\ oPc' = "provider"
    ELSE \* retries++, sleep 1000 * retries, test the while condition again
         IF cp.retries + 1 < maxRetries
         THEN /\ cp' = [cp EXCEPT !.retries = @ + 1]
              /\ oPc' = "call"
         ELSE /\ cp' = [cp EXCEPT !.retries = @ + 1, !.pi = @ + 1]
              /\ oPc' = "provider"

\* how a solveBatch invocation ended: "answers", "invalid" (HTTP 200 whose
\* content gave no index-to-answer mapping), "error" or "rateLimit"
Outcome(kind, res) ==
    IF kind # "reply" THEN kind
    ELSE IF res.questionsAnswered > 0 THEN "answers" ELSE "invalid"

\* provider.solveBatch(remainingQuestions) with its reply, then the rest of
\* the loop body. kind "reply": HTTP 200 whose content parsed to `parsed`
\* (every index Missing when it could not be parsed or repaired);
\* "error": network error or a non-2xx status; "rateLimit": HTTP 429.
SolveBatch ==
    /\ oPc = "call"
    /\ LET p     == providers[cp.pi]
           batch == cp.remainingQuestions
           sameChunk == lastCall.chunk = chunkNo
       IN  \E kind \in {"reply", "error", "rateLimit"} :
           \E parsed \in [IndexSet(batch) -> RawAnswers \cup {Missing}] :
             /\ kind # "reply" =>
                    \A i \in IndexSet(batch) : parsed[i] = Missing
             /\ LET res == IF kind = "reply"
                           THEN BatchResult(parsed, TokensOf(p), batch)
                           ELSE emptyResult
                    rl  == IF kind = "rateLimit" THEN 0
                           ELSE rateLimitRemaining[p]
                IN  /\ rateLimitRemaining' =
                         [rateLimitRemaining EXCEPT ![p] = rl]
                    /\ lastCall' = [provider |-> p,
                                    batch |-> IndexSet(batch),
                                    answeredBefore |-> answered,
                                    chunk |-> chunkNo,
                                    outcome |-> Outcome(kind, res),
                                    prompt |-> PromptOf(p, batch),
                                    nth |-> IF sameChunk
                                               /\ lastCall.provider = p
                                            THEN lastCall.nth + 1 ELSE 1,
                                    total |-> IF sameChunk
                                              THEN lastCall.total + 1
                                              ELSE 1,
                                    prev |-> IF sameChunk
                                             THEN PlaceOf(lastCall.provider)
                                             ELSE 0,
                                    slept |-> SleepAfter(res, rl)]
                    /\ answered' = answered \cup IndexSet(res.responses)
                    /\ AfterSolveBatch(res, rl)
    /\ UNCHANGED <<cache, apiKeys, questions, qi, uncachedQuestions,
                   cachedAnswers, result, chunkNo, cacheFaults, pipeVars>>

\* ------------------------------------------------------------------------
\* aiOrchestrator.saveToCache
\* ------------------------------------------------------------------------

RECURSIVE FindByIndex(_, _)
\* questions.find(q => q.index === index); <<>> stands for undefined
FindByIndex(list, index) ==
    IF list = <<>> THEN <<>>
    ELSE IF Head(list).index = index THEN <<Head(list)>>
         ELSE FindByIndex(Tail(list), index)

RECURSIVE CacheOperations(_, _, _)
\* the updateOne operations built by the loop over the responses
CacheOperations(chunk, responses, provider) ==
    IF responses = <<>> THEN <<>>
    ELSE LET resp  == Head(responses)
             found == FindByIndex(chunk, resp.index)
             rest  == CacheOperations(chunk, Tail(responses), provider)
         IN  IF found = <<>> THEN rest
             ELSE <<[filter |-> CacheKey(found[1]),
                     setOnInsert |->
                        [present |-> TRUE,
                         correctKey |-> resp.correctKey,
                         explanation |->
                            IF resp.explanation = Undefined THEN ""
                            ELSE resp.explanation,
                         provider |-> provider,
                         hitCount |-> 0]]>> \o rest

RECURSIVE ApplyUpsertsSet(_, _, _)
\* variant of ApplyUpserts whose update uses $set: a matching entry is
\* overwritten
ApplyUpsertsSet(store, ops, n) ==
    IF n = 0 \/ ops = <<>> THEN store
    ELSE ApplyUpsertsSet([store EXCEPT ![Head(ops).filter] =
                             Head(ops).setOnInsert],
                         Tail(ops), n - 1)

RECURSIVE ApplyUpserts(_, _, _)
\* the first n operations of an ordered bulkWrite: updateOne with upsert
\* and only $setOnInsert inserts when the key is absent and otherwise
\* leaves the entry alone
ApplyUpserts(store, ops, n) ==
    IF n = 0 \/ ops = <<>> THEN store
    ELSE LET op == Head(ops)
             next == IF store[op.filter].present THEN store
                     ELSE [store EXCEPT ![op.filter] = op.setOnInsert]
         IN  ApplyUpserts(next, Tail(ops), n - 1)

\* ------------------------------------------------------------------------
\* solveQuestions: per-chunk bookkeeping and assembly
\* ------------------------------------------------------------------------

RECURSIVE FilterIncluded(_, _)
\* variant of FilterNotIncluded with the test inverted
FilterIncluded(list, used) ==
    IF list = <<>> THEN <<>>
    ELSE IF Includes(used, Head(list))
         THEN <<Head(list)>> \o FilterIncluded(Tail(list), used)
         ELSE FilterIncluded(Tail(list), used)

RECURSIVE FilterNotIncluded(_, _)
\* list.filter(p => !used.includes(p))
FilterNotIncluded(list, used) ==
    IF list = <<>> THEN <<>>
    ELSE IF Includes(used, Head(list))
         THEN FilterNotIncluded(Tail(list), used)
         ELSE <<Head(list)>> \o FilterNotIncluded(Tail(list), used)

\* callProvidersWithFallback has returned for the current chunk: merge its
\* result, write the answers back to the cache (bulkWrite applies its first
\* `written` operations; fewer than all of them is a failing bulkWrite,
\* which saveToCache logs and swallows), then go on to the next chunk.
ChunkDone ==
    /\ oPc = "chunkDone"
    /\ LET chunk == Chunk(uncachedQuestions, chunkNo)
           provider == IF Len(cp.providersUsed) > 0 THEN cp.providersUsed[1]
                       ELSE "Gemini"
           ops == CacheOperations(chunk, cp.responses, provider)
       IN  /\ result' = [result EXCEPT
                   !.providersUsed =
                       @ \o FilterNotIncluded(cp.providersUsed, @),
                   !.totalTokens = @ + cp.totalTokens,
                   !.failedQuestions = @ + Len(cp.remainingQuestions),
                   !.responses = @ \o cp.responses]
           /\ IF Len(cp.responses) > 0
              THEN \E written \in 0..Len(ops) :
                       /\ cache' = ApplyUpserts(cache, ops, written)
                       /\ cacheFaults' =
                            IF written < Len(ops)
                            THEN [cacheFaults EXCEPT !.write = TRUE]
                            ELSE cacheFaults
              ELSE UNCHANGED <<cache, cacheFaults>>
    /\ IF chunkNo < ChunkCount(uncachedQuestions)
       THEN /\ chunkNo' = chunkNo + 1
            /\ cp' = CpStart(Chunk(uncachedQuestions, chunkNo + 1))
            /\ oPc' = "provider"
       ELSE /\ oPc' = "assemble"
            /\ UNCHANGED <<chunkNo, cp>>
    /\ UNCHANGED <<apiKeys, rateLimitRemaining, questions, qi,
                   uncachedQuestions, cachedAnswers, lastCall, answered,
                   pipeVars>>

\* Step 3 of solveQuestions: append the cached answers, sort by index,
\* return the result.
Assemble ==
    /\ oPc = "assemble"
    /\ result' = [result EXCEPT
                    !.responses = SortByIndex(@ \o cachedAnswers)]
    /\ oPc' = "done"
    /\ UNCHANGED <<cache, apiKeys, rateLimitRemaining, questions, qi,
                   uncachedQuestions, cachedAnswers, chunkNo, cp,
                   lastCall, answered, cacheFaults, pipeVars>>

\* entry of solveQuestions(list) with default options
SolveQuestionsStart(list) ==
    /\ questions' = list
    /\ qi' = 1
    /\ uncachedQuestions' = <<>>
    /\ cachedAnswers' = <<>>
    /\ result' = EmptyResult
    /\ chunkNo' = 0
    /\ cp' = CpIdle
    /\ lastCall' = NoCall
    /\ answered' = {}
    /\ cacheFaults' = NoFaults
    /\ oPc' = "cache"

\* ------------------------------------------------------------------------
\* SpecOrch: one solveQuestions call on any bounded question list
\* ------------------------------------------------------------------------

\* the stems of the lists given to solveQuestions: two stems with
\* different cache keys; a list may repeat a stem
OrchStems == {"what is x", "System: define Y"}

\* question lists as the worker builds them: index = position
QuestionLists ==
    UNION {{[i \in 1..n |-> [index |-> i, stem |-> f[i],
                             choices |-> ChoiceTexts]] :
               f \in [1..n -> OrchStems]} :
        n \in 0..MaxQuestions}

\* entries a cache can hold after earlier jobs
SeedEntry == [present |-> TRUE, correctKey |-> "A", explanation |-> "",
              provider |-> "GitHub", hitCount |-> 0]

\* which providers have an API key configured in the environment
KeyConfigs ==
    {[p \in ProviderNames |-> p \in {"Gemini", "GitHub"}],
     [p \in ProviderNames |-> p \in {"GitHub", "HuggingFace"}],
     [p \in ProviderNames |-> p = "Groq"],
     [p \in ProviderNames |-> FALSE]}

OrchIdle ==
    /\ oPc = "idle"
    /\ questions = <<>>
    /\ qi = 1
    /\ uncachedQuestions = <<>>
    /\ cachedAnswers = <<>>
    /\ result = EmptyResult
    /\ chunkNo = 0
    /\ cp = CpIdle
    /\ lastCall = NoCall
    /\ answered = {}
    /\ cacheFaults = NoFaults

InitOrch ==
    /\ cache \in [CacheKeys -> {NoEntry, SeedEntry}]
    /\ apiKeys \in KeyConfigs
    /\ rateLimitRemaining = [p \in ProviderNames |-> Infinity]
    /\ OrchIdle
    /\ quizzes = [q \in QuizIds |-> NoQuiz]
    /\ files = [q \in QuizIds |-> NoFile]
    /\ jobs = [q \in QuizIds |-> NoJob]
    /\ uploads = 0
    /\ driveConfigured = FALSE
    /\ edits = 0
    /\ parse = NoParse
    /\ sect = NoSect
    /\ w = WIdle

OrchCall ==
    /\ oPc = "idle"
    /\ \E list \in QuestionLists : SolveQuestionsStart(list)
    /\ UNCHANGED <<cache, apiKeys, rateLimitRemaining, pipeVars>>

OrchStep ==
    \/ CheckCache
    \/ CachePhaseEnd
    \/ ProviderLoopExit
    \/ ProviderSkip
    \/ ProviderEnter
    \/ SolveBatch
    \/ ChunkDone
    \/ Assemble

NextOrch == OrchCall \/ OrchStep

SpecOrch == InitOrch /\ [][NextOrch]_vars

\* ------------------------------------------------------------------------
\* quizService.createFromUpload
\* ------------------------------------------------------------------------

Min(S) == CHOOSE x \in S : \A y \in S : x <= y

\* Quiz.findOne({ fileHash, isDeleted: false, status: Completed })
CompletedWithHash(hash) ==
    {q \in QuizIds : /\ quizzes[q].present
                     /\ quizzes[q].fileHash = hash
                     /\ ~quizzes[q].isDeleted
                     /\ quizzes[q].status = "completed"}

\* findDuplicateFilePath: the local path of the first non-deleted Quiz with
\* this hash, if that file still exists; 0 stands for null
findDuplicateFilePath(hash) ==
    LET same == {q \in QuizIds : /\ quizzes[q].present
                                 /\ quizzes[q].fileHash = hash
                                 /\ ~quizzes[q].isDeleted}
    IN  IF same = {} THEN 0
        ELSE LET url == quizzes[Min(same)].documentUrl
             IN  IF url.scheme = "file" /\ files[url.path].exists
                 THEN url.path ELSE 0

\* queue.add("process-quiz", job, {attempts: 3, backoff: fixed 5 min, ...})
addQuizProcessingJob(quizId, documentUrl) ==
    [state |-> "waiting", attemptsMade |-> 0, quizId |-> quizId,
     documentUrl |-> documentUrl, errored |-> FALSE, redelivered |-> 0]

\* One upload request: multer has stored the document `doc` under a fresh
\* path; enqueueOk = FALSE is a queue.add that throws after Quiz.create.
createFromUpload ==
    /\ uploads < MaxUploads
    /\ \E doc \in Docs, enqueueOk \in BOOLEAN :
         LET id == uploads + 1
             existingFilePath == findDuplicateFilePath(doc.hash)
             finalPath == IF existingFilePath # 0 /\ existingFilePath # id
                          THEN existingFilePath ELSE id
         IN  /\ uploads' = id
             /\ IF CompletedWithHash(doc.hash) # {}
                THEN \* duplicate of a completed quiz: unlink the new file
                     /\ enqueueOk
                     /\ UNCHANGED <<quizzes, files, jobs>>
                ELSE /\ files' = IF finalPath = id
                                 THEN [files EXCEPT ![id] =
                                          [exists |-> TRUE, doc |-> doc]]
                                 ELSE files
                     /\ quizzes' = [quizzes EXCEPT ![id] =
                                      NewQuiz(FileUrl(finalPath), doc.hash)]
                     /\ jobs' = IF enqueueOk
                                THEN [jobs EXCEPT ![id] =
                                        addQuizProcessingJob(id,
                                                         FileUrl(finalPath))]
                                ELSE jobs
    /\ UNCHANGED <<orchVars, driveConfigured, edits,
                   parse, sect, w>>

\* ------------------------------------------------------------------------
\* The worker: processQuizDocument
\* ------------------------------------------------------------------------

\* const concurrency = parseInt(process.env.BULLMQ_QUIZ_CONCURRENCY || "1"):
\* the worker runs one job at a time and takes the oldest waiting job
WorkerTake ==
    /\ w.job = 0
    /\ LET waiting == {j \in QuizIds : jobs[j].state = "waiting"}
       IN  /\ waiting # {}
           /\ jobs' = [jobs EXCEPT ![Min(waiting)].state = "active"]
           /\ w' = [WIdle EXCEPT !.job = Min(waiting), !.pc = "start"]
    /\ UNCHANGED <<orchVars, quizzes, files, uploads, driveConfigured, edits,
                   parse, sect>>

\* await Quiz.findByIdAndUpdate(quizId, { status: Processing })
JobStart ==
    /\ w.pc = "start"
    /\ \E ok \in BOOLEAN :
         IF ok
         THEN /\ quizzes' = IF quizzes[jobs[w.job].quizId].present
                            THEN [quizzes EXCEPT
                                    ![jobs[w.job].quizId].status = "processing"]
                            ELSE quizzes
              /\ w' = [w EXCEPT !.pc = "parse"]
         ELSE /\ w' = [w EXCEPT !.pc = "catch", !.errorAt = "start"]
              /\ UNCHANGED quizzes
    /\ UNCHANGED <<orchVars, files, jobs, uploads, driveConfigured, edits,
                   parse, sect>>

\* parseGenericDocument(tempPath) throws
JobParseFail ==
    /\ w.pc = "parse"
    /\ LET f == files[jobs[w.job].documentUrl.path]
       IN  ParserThrows(f.doc, f.exists)
    /\ w' = [w EXCEPT !.pc = "catch", !.errorAt = "parse"]
    /\ UNCHANGED <<orchVars, quizzes, files, jobs, uploads, driveConfigured,
                   edits, parse, sect>>

\* parseGenericDocument(tempPath) returns; questionsForAI is built and
\* aiOrchestrator.solveQuestions(questionsForAI) is entered
JobParse ==
    /\ w.pc = "parse"
    /\ LET f == files[jobs[w.job].documentUrl.path]
       IN  /\ ~ParserThrows(f.doc, f.exists)
           /\ w' = [w EXCEPT !.pc = "orchestrate",
                             !.parsed = parseGenericDocument(f.doc)]
           /\ SolveQuestionsStart(questionsForAI(parseGenericDocument(f.doc)))
    /\ UNCHANGED <<cache, apiKeys, rateLimitRemaining, quizzes, files, jobs,
                   uploads, driveConfigured, edits,
                   parse, sect>>

\* solveQuestions has returned; finalQuestions and the section counts are
\* computed; await Quiz.findById(quizId)
JobLoad ==
    /\ w.pc = "orchestrate"
    /\ oPc = "done"
    /\ \E ok \in BOOLEAN :
         IF ~ok
         THEN w' = [w EXCEPT !.pc = "catch", !.errorAt = "load"]
         ELSE IF quizzes[jobs[w.job].quizId].present
         THEN w' = [w EXCEPT !.pc = "save", !.loaded = TRUE]
         ELSE w' = [w EXCEPT !.pc = "end"]
    /\ UNCHANGED <<orchVars, quizzes, files, jobs, uploads, driveConfigured,
                   edits, parse, sect>>

\* the fields assigned to the loaded Quiz before quiz.save()
CompletedFields(quiz, final) ==
    [quiz EXCEPT !.questions = final,
                 !.totalQuestions = Len(final),
                 !.processedQuestions = Len(final),
                 !.sections = SectionNames(final),
                 !.sectionCounts = sectionCounts(final),
                 !.status = "completed"]

\* quiz.questions = finalQuestions; ...; await quiz.save()
JobSave ==
    /\ w.pc = "save"
    /\ LET id == jobs[w.job].quizId
           final == finalQuestions(w.parsed, result.responses)
       IN  \E ok \in BOOLEAN :
             IF ok /\ quizzes[id].present
             THEN /\ quizzes' = [quizzes EXCEPT
                                   ![id] = CompletedFields(@, final)]
                  /\ w' = [w EXCEPT !.pc = IF driveConfigured THEN "drive"
                                           ELSE "end"]
             ELSE /\ w' = [w EXCEPT !.pc = "catch", !.errorAt = "save"]
                  /\ UNCHANGED quizzes
    /\ UNCHANGED <<orchVars, files, jobs, uploads, driveConfigured, edits,
                   parse, sect>>

\* step 6: driveStorage.uploadFile, quiz.documentUrl = webViewLink,
\* quiz.save(), unlink of the local file; any error is caught and logged
JobDrive ==
    /\ w.pc = "drive"
    /\ LET id == jobs[w.job].quizId
           path == jobs[w.job].documentUrl.path
       IN  \E uploadOk \in BOOLEAN, saveOk \in BOOLEAN :
             IF uploadOk /\ saveOk /\ quizzes[id].present
             THEN /\ quizzes' = [quizzes EXCEPT
                                   ![id].documentUrl = DriveUrl(path)]
                  /\ files' = IF files[path].exists
                              THEN [files EXCEPT ![path] = NoFile]
                              ELSE files
             ELSE UNCHANGED <<quizzes, files>>
    /\ w' = [w EXCEPT !.pc = "end"]
    /\ UNCHANGED <<orchVars, jobs, uploads, driveConfigured, edits,
                   parse, sect>>

\* the catch block: unlink the file if it exists, then
\* Quiz.findByIdAndDelete(quizId); a failing delete is caught and logged
JobCleanup ==
    /\ w.pc = "catch"
    /\ LET id == jobs[w.job].quizId
           path == jobs[w.job].documentUrl.path
       IN  /\ files' = IF files[path].exists
                       THEN [files EXCEPT ![path] = NoFile]
                       ELSE files
           /\ \E deleteOk \in BOOLEAN :
                IF deleteOk
                THEN /\ quizzes' = [quizzes EXCEPT ![id] = NoQuiz]
                     /\ w' = [w EXCEPT !.pc = "end", !.cleanup = "deleted"]
                ELSE /\ UNCHANGED quizzes
                     /\ w' = [w EXCEPT !.pc = "end", !.cleanup = "failed"]
    /\ UNCHANGED <<orchVars, jobs, uploads, driveConfigured, edits,
                   parse, sect>>

\* attempts: 3
attempts == 3

\* What the queue does with a job when its handler has finished:
\* removeOnComplete when it returned; when it threw, another attempt after
\* the fixed backoff while attemptsMade < attempts, else the failed set.
SettleJob(job, threw, errored) ==
    IF ~threw
    THEN [job EXCEPT !.state = "completed", !.errored = errored]
    ELSE IF job.attemptsMade + 1 < attempts
    THEN [job EXCEPT !.state = "waiting", !.attemptsMade = @ + 1,
                     !.errored = errored]
    ELSE [job EXCEPT !.state = "failed", !.attemptsMade = @ + 1,
                     !.errored = errored]

\* processQuizDocument returns: every error was caught inside, so the
\* promise resolves and the handler never throws
JobReturn ==
    /\ w.pc = "end"
    /\ jobs' = [jobs EXCEPT
                  ![w.job] = SettleJob(@, FALSE, w.errorAt # "none")]
    /\ w' = WIdle
    /\ oPc' = "idle"
    /\ questions' = <<>>
    /\ qi' = 1
    /\ uncachedQuestions' = <<>>
    /\ cachedAnswers' = <<>>
    /\ result' = EmptyResult
    /\ chunkNo' = 0
    /\ cp' = CpIdle
    /\ lastCall' = NoCall
    /\ answered' = {}
    /\ cacheFaults' = NoFaults
    /\ UNCHANGED <<cache, apiKeys, rateLimitRemaining, quizzes, files,
                   uploads, driveConfigured, edits,
                   parse, sect>>

\* ------------------------------------------------------------------------
\* Spec: uploads, queue and worker
\* ------------------------------------------------------------------------

\* the environment of the worker process: which providers have a key
WorkerKeyConfigs ==
    {[p \in ProviderNames |-> p = "GitHub"]}

PipeIdle ==
    /\ quizzes = [q \in QuizIds |-> NoQuiz]
    /\ files = [q \in QuizIds |-> NoFile]
    /\ jobs = [q \in QuizIds |-> NoJob]
    /\ uploads = 0
    /\ edits = 0
    /\ parse = NoParse
    /\ sect = NoSect
    /\ w = WIdle

Init ==
    /\ cache = [k \in CacheKeys |-> NoEntry]
    /\ apiKeys \in WorkerKeyConfigs
    /\ rateLimitRemaining = [p \in ProviderNames |-> Infinity]
    /\ OrchIdle
    /\ PipeIdle
    /\ driveConfigured \in BOOLEAN

Next ==
    \/ createFromUpload
    \/ WorkerTake
    \/ JobStart
    \/ JobParseFail
    \/ JobParse
    \/ OrchStep
    \/ JobLoad
    \/ JobSave
    \/ JobDrive
    \/ JobCleanup
    \/ JobReturn

Spec == Init /\ [][Next]_vars

\* ------------------------------------------------------------------------
\* SpecLive: the pipeline with a fair queue and worker
\* ------------------------------------------------------------------------

\* The steps taken by the worker process: the queue hands a waiting job to
\* the idle worker, and the event loop resumes processQuizDocument after
\* each await.
WorkerStep ==
    \/ WorkerTake
    \/ JobStart
    \/ JobParseFail
    \/ JobParse
    \/ OrchStep
    \/ JobLoad
    \/ JobSave
    \/ JobDrive
    \/ JobCleanup
    \/ JobReturn

\* Uploads arrive when users send them; the worker started by
\* startQuizWorker keeps taking steps while it has one to take.
SpecLive == Init /\ [][Next]_vars /\ WF_vars(WorkerStep)

\* ------------------------------------------------------------------------
\* SpecEdit: the pipeline together with the question editing endpoint
\* ------------------------------------------------------------------------

\* number of edits in one behaviour
MaxEdits == 1

\* request bodies accepted by updateQuestionSchema: correctAnswerKey is any
\* string of length 1, or absent
EditKeys == {Undefined, "B", "Z"}

\* quizController.updateQuestion and quizService.updateQuestion: the body is
\* validated, source is forced to Manual, the Quiz is loaded by findById
\* (isDeleted: false), the question is looked up, its fields are assigned
\* and the Quiz is saved. A request that ends in an error (Quiz or question
\* not found, failing save) changes nothing.
updateQuestion ==
    /\ edits < MaxEdits
    /\ \E id \in QuizIds, key \in EditKeys :
         /\ quizzes[id].present
         /\ ~quizzes[id].isDeleted
         /\ \E questionIndex \in 1..Len(quizzes[id].questions) :
              quizzes' = [quizzes EXCEPT ![id].questions[questionIndex] =
                            [@ EXCEPT
                               !.correctAnswerKey =
                                   IF key # Undefined THEN key ELSE @,
                               !.source = "Manual"]]
    /\ edits' = edits + 1
    /\ UNCHANGED <<orchVars, files, jobs, uploads, driveConfigured, parse,
                   sect, w>>

NextEdit == Next \/ updateQuestion

SpecEdit == Init /\ [][NextEdit]_vars

\* ------------------------------------------------------------------------
\* SpecRedeliver: Spec with shutdowns of the worker process
\* ------------------------------------------------------------------------

\* redeliveries of one job
MaxRedeliveries == 1

\* The process is shut down while processQuizDocument runs: the locals of
\* the run are lost and the queue, which never saw the job settle, puts it
\* back in line for the worker started by the next startQuizWorker.
Redeliver ==
    /\ w.job # 0
    /\ jobs[w.job].redelivered < MaxRedeliveries
    /\ jobs' = [jobs EXCEPT ![w.job].state = "waiting",
                            ![w.job].redelivered = @ + 1]
    /\ w' = WIdle
    /\ oPc' = "idle"
    /\ questions' = <<>>
    /\ qi' = 1
    /\ uncachedQuestions' = <<>>
    /\ cachedAnswers' = <<>>
    /\ result' = EmptyResult
    /\ chunkNo' = 0
    /\ cp' = CpIdle
    /\ lastCall' = NoCall
    /\ answered' = {}
    /\ cacheFaults' = NoFaults
    /\ UNCHANGED <<cache, apiKeys, rateLimitRemaining, quizzes, files,
                   uploads, driveConfigured, edits, parse, sect>>

NextRedeliver == Next \/ Redeliver

SpecRedeliver == Init /\ [][NextRedeliver]_vars

\* ------------------------------------------------------------------------
\* SpecParse: parseGenericDocument on any bounded document
\* ------------------------------------------------------------------------

\* the extensions of the three parser paths
ParseExts == {".pdf", ".docx", ".txt"}

InitParse ==
    /\ cache = [k \in CacheKeys |-> NoEntry]
    /\ apiKeys \in WorkerKeyConfigs
    /\ rateLimitRemaining = [p \in ProviderNames |-> Infinity]
    /\ OrchIdle
    /\ quizzes = [q \in QuizIds |-> NoQuiz]
    /\ files = [q \in QuizIds |-> NoFile]
    /\ jobs = [q \in QuizIds |-> NoJob]
    /\ uploads = 0
    /\ driveConfigured = FALSE
    /\ edits = 0
    /\ w = WIdle
    /\ sect = NoSect
    /\ \E ext \in ParseExts, tokens \in Documents :
         parse = [pc |-> "input", ext |-> ext, tokens |-> tokens,
                  questions |-> <<>>]

\* documentService.parseGenericDocument: the switch on the extension
ParseGeneric ==
    /\ parse.pc = "input"
    /\ parse' = [parse EXCEPT
                   !.pc = "done",
                   !.questions =
                       CASE parse.ext = ".pdf"  -> parsePdf(parse.tokens)
                         [] parse.ext = ".docx" -> parseDocx(parse.tokens)
                         [] OTHER               -> parseTxt(parse.tokens)]
    /\ UNCHANGED <<orchVars, quizzes, files, jobs, uploads, driveConfigured,
                   edits, sect, w>>

NextParse == ParseGeneric

SpecParse == InitParse /\ [][NextParse]_vars

\* ------------------------------------------------------------------------
\* SpecSection: sanitizeSection on any bounded section label
\* ------------------------------------------------------------------------

\* most white space between the letters and the number of a label
MaxSpaces == 2

\* letter prefixes: "CLO", "clo", "Bai" (Bài written without diacritics)
LabelLetters == {CLO, <<"c", "l", "o">>, <<"B", "a", "i">>}

\* what may stand in front of a CLO prefix: nothing, "cl", "CLCL", "CLO "
DuplicatedPrefixes ==
    {<<>>, <<"c", "l">>, <<"C", "L", "C", "L">>, CLO \o <<" ">>}

\* dotted numbers: "1", "1.2", "12.3"
LabelNumbers == {<<"1">>, <<"1", ".", "2">>, <<"1", "2", ".", "3">>}

Spaces(n) == [i \in 1..n |-> " "]

\* q.section values: a letter prefix, white space and a dotted number, with
\* or without surrounding white space, or white space only
SectionLabels ==
    {[kind |-> "major", dup |-> d, letters |-> l, spaces |-> n,
      number |-> num, padded |-> pad] :
        d \in DuplicatedPrefixes, l \in LabelLetters, n \in 0..MaxSpaces,
        num \in LabelNumbers, pad \in BOOLEAN}
    \cup {[kind |-> "blank", dup |-> <<>>, letters |-> <<>>, spaces |-> n,
           number |-> <<>>, padded |-> FALSE] : n \in 0..MaxSpaces}

\* the text of a label
LabelText(label) ==
    IF label.kind = "blank" THEN Spaces(label.spaces)
    ELSE LET text == label.dup \o label.letters \o Spaces(label.spaces)
                         \o label.number
         IN  IF label.padded THEN <<" ">> \o text \o <<" ", "\t">> ELSE text

InitSection ==
    /\ cache = [k \in CacheKeys |-> NoEntry]
    /\ apiKeys \in WorkerKeyConfigs
    /\ rateLimitRemaining = [p \in ProviderNames |-> Infinity]
    /\ OrchIdle
    /\ quizzes = [q \in QuizIds |-> NoQuiz]
    /\ files = [q \in QuizIds |-> NoFile]
    /\ jobs = [q \in QuizIds |-> NoJob]
    /\ uploads = 0
    /\ driveConfigured = FALSE
    /\ edits = 0
    /\ parse = NoParse
    /\ w = WIdle
    /\ \E label \in SectionLabels :
         /\ toUpperCase(label.letters) # CLO => label.dup = <<>>
         /\ sect = [pc |-> "input", label |-> label,
                    raw |-> LabelText(label), out |-> <<>>]

\* const sanitizedSection = sanitizeSection(q.section || "")
SanitizeSection ==
    /\ sect.pc = "input"
    /\ sect' = [sect EXCEPT !.pc = "done", !.out = sanitizeSection(sect.raw)]
    /\ UNCHANGED <<orchVars, quizzes, files, jobs, uploads, driveConfigured,
                   edits, parse, w>>

NextSection == SanitizeSection

SpecSection == InitSection /\ [][NextSection]_vars

\* ------------------------------------------------------------------------
\* Properties of solveQuestions (checked under SpecOrch)
\* ------------------------------------------------------------------------

\* solveQuestions has returned and every question of the list was a hit
AllCacheHits == oPc = "done" /\ result.cacheHits = Len(questions)

\* what C1 promises about the result of such a call
CacheOnlyResult ==
    /\ lastCall = NoCall
    /\ result.providersUsed = <<"Cache">>
    /\ result.totalTokens = 0

\* C1 as stated: whenever solveQuestions returns for a list in which every
\* question hit the cache, no solveBatch was invoked, providersUsed is
\* exactly <<"Cache">> and totalTokens is 0.
C1_AsStated == AllCacheHits => CacheOnlyResult

\* C1, amended: the same for every non-empty question list (an empty list
\* returns providersUsed = <<>>).
C1_CacheOnly == (AllCacheHits /\ Len(questions) > 0) => CacheOnlyResult

\* a call on two or more questions, all of them hits, has returned
C1_Witness == AllCacheHits /\ Len(questions) >= 2

\* the indices of a response list, with multiplicity
ResponseIndices(responses) == [i \in 1..Len(responses) |-> responses[i].index]

NoDuplicates(s) == \A i, j \in 1..Len(s) : i # j => s[i] # s[j]

\* C2: when solveQuestions returns, cacheHits + cacheMisses = len(Q),
\* len(responses) + failedQuestions = len(Q), and responses holds each
\* index at most once (and only indices of Q).
C2_Counts ==
    oPc = "done" =>
        /\ result.cacheHits + result.cacheMisses = Len(questions)
        /\ Len(result.responses) + result.failedQuestions = Len(questions)
        /\ NoDuplicates(ResponseIndices(result.responses))
        /\ IndexSet(result.responses) \subseteq IndexSet(questions)

\* a call has returned with a cache hit, a provider answer and a failed
\* question, after a provider was rate limited
C2_Witness ==
    /\ oPc = "done"
    /\ result.cacheHits > 0
    /\ result.failedQuestions > 0
    /\ Len(result.responses) > result.cacheHits
    /\ \E p \in ProviderNames : rateLimitRemaining[p] = 0

\* C3: a solveBatch invocation never carries a question index for which an
\* earlier solveBatch of the same solveQuestions call returned an answer.
C3_NoRequery == lastCall.batch \cap lastCall.answeredBefore = {}

\* a second provider is invoked with the questions the first one left
\* unanswered, after the first one answered part of its batch
C3_Witness ==
    /\ lastCall.answeredBefore # {}
    /\ lastCall.batch # {}
    /\ lastCall.provider = "GitHub"
    /\ chunkNo = 1

\* ------------------------------------------------------------------------
\* Properties of the pipeline (checked under Spec)
\* ------------------------------------------------------------------------

\* the Quiz record and the document path of the job the worker is running
JobQuiz == quizzes[jobs[w.job].quizId]
JobPath == jobs[w.job].documentUrl.path

IsCompleted(quiz) ==
    quiz.present /\ quiz.status = "completed" /\ ~quiz.isDeleted

\* the keys of the choices of a question that carry a visual mark
MarkedKeys(q) ==
    {q.choices[c].key : c \in {d \in 1..Len(q.choices) :
                                  q.choices[d].isVisuallyMarked}}

\* C4: in every Completed quiz, a question with exactly one visually marked
\* choice is stored with that choice's key and source StyleDetected.
C4_VisualMarkWins ==
    \A id \in QuizIds :
        IsCompleted(quizzes[id]) =>
            \A i \in 1..Len(quizzes[id].questions) :
                LET q == quizzes[id].questions[i]
                IN  Cardinality(MarkedKeys(q)) = 1 =>
                        /\ MarkedKeys(q) = {q.correctAnswerKey}
                        /\ q.source = "StyleDetected"

\* a job has stored a question with one marked choice although the
\* orchestrator returned a different key for its index
C4_Witness ==
    /\ w.pc = "end"
    /\ w.errorAt = "none"
    /\ IsCompleted(JobQuiz)
    /\ \E i \in 1..Len(w.parsed) :
          /\ Cardinality(MarkedKeys(w.parsed[i])) = 1
          /\ MapGet(result.responses, i) # <<>>
          /\ MapGet(result.responses, i)[1].correctKey
                \notin MarkedKeys(w.parsed[i])

\* C5 as stated: while solveQuestions runs for a job, no question of its
\* list is one whose correctAnswerKey the parser set from a visual mark.
C5_MarkedNotSent ==
    w.pc = "orchestrate" =>
        \A i \in 1..Len(questions) :
            w.parsed[questions[i].index].correctAnswerKey = ""

C7_ErrorsRaised ==
    \A j \in QuizIds : jobs[j].state = "completed" => ~jobs[j].errored

\* C8 as stated: when the parser threw, the run ends with the Quiz in
\* state Failed.
C8_ParserErrorFailed ==
    (w.pc = "end" /\ w.errorAt = "parse") =>
        JobQuiz.present /\ JobQuiz.status = "failed"

\* C9 as stated: no Quiz is Completed with totalQuestions = 0.
C9_NoEmptyCompleted ==
    \A id \in QuizIds :
        IsCompleted(quizzes[id]) => quizzes[id].totalQuestions > 0

\* C10 as stated: a run in which an error was raised after the parser
\* returned (while loading or saving the Quiz) ends with the Quiz record and
\* its source file still there, the cleanup not having run.
C10_CleanupOnlyOnParse ==
    (w.pc = "end" /\ w.errorAt \in {"load", "save"}) =>
        /\ w.cleanup = "none"
        /\ JobQuiz.present
        /\ files[JobPath].exists

\* ------------------------------------------------------------------------
\* Properties of the cache and of the provider loop (checked under SpecOrch)
\* ------------------------------------------------------------------------

\* the GlobalQuestion collection holds one cell per (stemHash, choicesHash)
\* (the unique compound index); a step keeps the entry of key k when the
\* entry stays and its answer fields are the same afterwards
EntryKept(k) ==
    cache[k].present =>
        /\ cache'[k].present
        /\ cache'[k].correctKey = cache[k].correctKey
        /\ cache'[k].explanation = cache[k].explanation
        /\ cache'[k].provider = cache[k].provider
        /\ cache'[k].hitCount >= cache[k].hitCount

CacheFailed == cacheFaults.read # {} \/ cacheFaults.write

\* C12: a failing cache lookup is a miss (the question is among the
\* uncached questions handed to the providers, never among the cached
\* answers); after a failing bulkWrite solveQuestions still returns every
\* provider answer; and a run with cache failures whose Quiz could be
\* loaded and saved ends with the Quiz Completed.
C12_CacheBestEffort ==
    /\ cacheFaults.read \subseteq IndexSet(uncachedQuestions)
    /\ cacheFaults.read \cap IndexSet(cachedAnswers) = {}
    /\ (oPc = "done" /\ CacheFailed) =>
          /\ answered \subseteq IndexSet(result.responses)
          /\ result.cacheMisses = Len(uncachedQuestions)
    /\ w.errorAt \in {"none", "start", "parse", "load", "save"}
    /\ (w.pc = "end" /\ CacheFailed /\ w.errorAt \notin {"load", "save"}) =>
          /\ IsCompleted(JobQuiz)
          /\ \A i \in answered :
                JobQuiz.questions[i].correctAnswerKey \in
                    {MapGet(result.responses, i)[1].correctKey,
                     w.parsed[i].correctAnswerKey}

\* a run ends Completed after the lookup of an existing entry failed, the
\* provider answered that question, and the bulkWrite of the answers failed
C12_Witness ==
    /\ w.pc = "end"
    /\ IsCompleted(JobQuiz)
    /\ cacheFaults.write
    /\ cacheFaults.read \cap answered # {}

\* solveQuestions has returned for a list of one chunk for which the
\* primary provider (Gemini) was answered with HTTP 429 and gave no answer,
\* and the secondary (GitHub) then answered every question of the chunk
PrimaryLimitedSecondaryCovers ==
    /\ oPc = "done"
    /\ apiKeys["Gemini"] /\ apiKeys["GitHub"]
    /\ ChunkCount(uncachedQuestions) = 1
    /\ rateLimitRemaining["Gemini"] = 0
    /\ lastCall.provider = "GitHub"
    /\ lastCall.answeredBefore = {}
    /\ lastCall.batch = IndexSet(uncachedQuestions)
    /\ lastCall.batch \subseteq answered

\* the secondary's answers (every provider answer of the model is "B") are
\* the final answers of the chunk, and nothing failed
SecondaryAnswersFinal ==
    /\ result.failedQuestions = 0
    /\ \A i \in lastCall.batch :
          /\ MapGet(result.responses, i) # <<>>
          /\ MapGet(result.responses, i)[1].correctKey = "B"

\* C13 as stated: in that case providersUsed = [Primary, Secondary],
\* failedQuestions = 0 and the secondary's answers are final (empty cache).
C13_AsStated ==
    (PrimaryLimitedSecondaryCovers /\ result.cacheHits = 0) =>
        /\ result.providersUsed = <<"Gemini", "GitHub">>
        /\ SecondaryAnswersFinal

\* C13, amended: in that case providersUsed holds the secondary only (after
\* "Cache" when some question hit the cache): a provider is recorded when
\* it returned at least one answer; failedQuestions = 0 and the secondary's
\* answers are final.
C13_SecondaryOnly ==
    PrimaryLimitedSecondaryCovers =>
        /\ result.providersUsed =
              PushCache(<<>>, result.cacheHits) \o <<"GitHub">>
        /\ SecondaryAnswersFinal

\* the case with two questions and an empty cache result
C13_Witness ==
    /\ PrimaryLimitedSecondaryCovers
    /\ result.cacheHits = 0
    /\ Cardinality(lastCall.batch) = 2

\* C14 as stated: when the latest solveBatch of the current chunk returned
\* a response without any index-to-answer mapping, the next solveBatch for
\* that chunk is not made to the same provider.
C14_NoRetryAfterInvalid ==
    (oPc = "call" /\ lastCall.outcome = "invalid"
                  /\ lastCall.chunk = chunkNo) =>
        providers[cp.pi] # lastCall.provider

\* ------------------------------------------------------------------------
\* Properties of stored quizzes
\* ------------------------------------------------------------------------

ChoiceKeys(q) == {q.choices[c].key : c \in 1..Len(q.choices)}

\* C15 as stated: in every stored Quiz, the correctAnswerKey of each
\* question is empty or the key of one of the question's own choices.
C15_KeyAmongChoices ==
    \A id \in QuizIds :
        quizzes[id].present =>
            \A i \in 1..Len(quizzes[id].questions) :
                LET q == quizzes[id].questions[i]
                IN  q.correctAnswerKey = "" \/
                    q.correctAnswerKey \in ChoiceKeys(q)

RECURSIVE SumCounts(_)
SumCounts(counts) ==
    IF counts = <<>> THEN 0 ELSE Head(counts).count + SumCounts(Tail(counts))

\* C16: every stored Quiz has processedQuestions <= totalQuestions, the
\* counts of sectionCounts add up to totalQuestions, every name of
\* sectionCounts is in sections, sections has no duplicates; a Completed
\* Quiz has processedQuestions = totalQuestions = number of questions.
C16_QuizCounts ==
    \A id \in QuizIds :
        LET quiz == quizzes[id]
        IN  quiz.present =>
              /\ quiz.processedQuestions <= quiz.totalQuestions
              /\ SumCounts(quiz.sectionCounts) = quiz.totalQuestions
              /\ \A n \in 1..Len(quiz.sectionCounts) :
                    Includes(quiz.sections, quiz.sectionCounts[n].name)
              /\ NoDuplicates(quiz.sections)
              /\ quiz.status = "completed" =>
                    /\ quiz.processedQuestions = quiz.totalQuestions
                    /\ quiz.totalQuestions = Len(quiz.questions)

\* a Completed Quiz with two questions in two sections is stored while
\* another Quiz is still Pending
C16_Witness ==
    \E id, other \in QuizIds :
        /\ IsCompleted(quizzes[id])
        /\ quizzes[id].totalQuestions = 2
        /\ Len(quizzes[id].sectionCounts) = 2
        /\ quizzes[other].present
        /\ quizzes[other].status = "pending"

\* C17: every prompt a provider adapter transmits from solveBatch has passed
\* the prompt-injection sanitizer: the transmitted text is what
\* sanitizePrompt leaves of it, so it holds no match of an injection
\* pattern and is no longer than the cap.
C17_PromptSanitized ==
    lastCall.provider # "none" =>
        lastCall.prompt = sanitizePrompt(lastCall.prompt)

\* ------------------------------------------------------------------------
\* Properties of the parsers (checked under SpecParse)
\* ------------------------------------------------------------------------

\* the position in the document of its k-th question paragraph
QuestionPosition(tokens, k) ==
    CHOOSE i \in 1..Len(tokens) :
        /\ tokens[i].kind = "question"
        /\ Cardinality({j \in 1..i : tokens[j].kind = "question"}) = k

\* the section of the nearest heading in front of position pos
NearestPrecedingSection(tokens, pos) ==
    LET hs == {i \in 1..(pos - 1) : tokens[i].kind = "heading"}
    IN  IF hs = {} THEN DefaultSection
        ELSE MajorSection(tokens[CHOOSE i \in hs : \A j \in hs : j <= i].raw)

\* C18: on every format path, every question of the parsed document has
\* the section of the nearest heading that precedes it in the document (the
\* default section if none does), never that of a later heading.
C18_StickySection ==
    parse.pc = "done" =>
        /\ Len(parse.questions) =
               Cardinality({i \in 1..Len(parse.tokens) :
                               parse.tokens[i].kind = "question"})
        /\ \A k \in 1..Len(parse.questions) :
               parse.questions[k].section =
                   NearestPrecedingSection(parse.tokens,
                       QuestionPosition(parse.tokens, k))

\* the number of visually marked choices of the k-th question paragraph
MarkedCount(tokens, k) ==
    LET t == tokens[QuestionPosition(tokens, k)]
    IN  (IF t.a THEN 1 ELSE 0) + (IF t.b THEN 1 ELSE 0)

\* C19: on the DOCX path a parsed question has a non-empty correctAnswerKey
\* and source StyleDetected exactly when one of its choices is visually
\* marked; with no or several marked choices the key is empty and the source
\* is AI_Generated.
C19_ExactlyOneMarked ==
    (parse.pc = "done" /\ parse.ext = ".docx") =>
        \A k \in 1..Len(parse.questions) :
            LET q == parse.questions[k]
            IN  IF MarkedCount(parse.tokens, k) = 1
                THEN q.correctAnswerKey # "" /\ q.source = "StyleDetected"
                ELSE q.correctAnswerKey = "" /\ q.source = "AI_Generated"

\* ------------------------------------------------------------------------
\* The status of a Quiz (checked under SpecRedeliver)
\* ------------------------------------------------------------------------

\* the status changes of the declared state machine
StatusMoves ==
    {<<"pending", "processing">>, <<"processing", "completed">>,
     <<"processing", "waiting_ai">>, <<"processing", "failed">>}

\* one step leaves the status of Quiz id alone or moves it as declared; a
\* Quiz that appears is Pending; no Quiz is in Needs_Review
StatusStep(id) ==
    /\ (quizzes[id].present /\ quizzes'[id].present
          /\ quizzes'[id].status # quizzes[id].status) =>
            <<quizzes[id].status, quizzes'[id].status>> \in StatusMoves
    /\ (~quizzes[id].present /\ quizzes'[id].present) =>
            quizzes'[id].status = "pending"
    /\ quizzes'[id].present => quizzes'[id].status # "needs_review"

\* C20: every change the pipeline makes to the status of a Quiz is Pending
\* to Processing, or Processing to Completed, Waiting_AI or Failed; no Quiz
\* is put in Needs_Review, and none is moved back to Processing from
\* Completed or from any status other than Pending and Waiting_AI.
C20_StatusMachine == [][\A id \in QuizIds : StatusStep(id)]_vars

\* ------------------------------------------------------------------------
\* The provider of a cache entry (checked under SpecOrch)
\* ------------------------------------------------------------------------

\* the indices for which the latest solveBatch call returned an answer
LastCallAnswered == answered \ lastCall.answeredBefore

\* the indices of the current chunk whose question has cache key k
ChunkIndicesOf(k) ==
    {i \in IndexSet(Chunk(uncachedQuestions, chunkNo)) :
        \E n \in 1..Len(uncachedQuestions) :
            /\ uncachedQuestions[n].index = i
            /\ CacheKey(uncachedQuestions[n]) = k}

\* C21: an entry that the writeback of a chunk creates carries the name of
\* the provider whose solveBatch returned the answer: when every question
\* of the chunk with that key was answered by the latest call of the chunk,
\* the entry names the provider of that call, also when an earlier provider
\* answered other questions of the chunk.
C21_WinningProvider ==
    [][\A k \in CacheKeys :
          (/\ oPc = "chunkDone"
           /\ ~cache[k].present
           /\ cache'[k].present
           /\ lastCall.chunk = chunkNo
           /\ ChunkIndicesOf(k) # {}
           /\ ChunkIndicesOf(k) \subseteq LastCallAnswered)
             => cache'[k].provider = lastCall.provider]_vars

\* ------------------------------------------------------------------------
\* Deduplication of uploads (checked under Spec)
\* ------------------------------------------------------------------------

\* C22: uploads are deduplicated by content hash: at any moment at most one
\* non-deleted Quiz exists per content hash (an upload whose hash is that of
\* an existing non-deleted Quiz creates no Quiz and no job).
C22_OneQuizPerHash ==
    \A a, b \in QuizIds :
        (/\ a # b
         /\ quizzes[a].present /\ ~quizzes[a].isDeleted
         /\ quizzes[b].present /\ ~quizzes[b].isDeleted)
            => quizzes[a].fileHash # quizzes[b].fileHash

\* ------------------------------------------------------------------------
\* Question indices end to end (checked under Spec)
\* ------------------------------------------------------------------------

\* the positions of the responses that carry index k
ResponsesFor(responses, k) ==
    {n \in 1..Len(responses) : responses[n].index = k}

\* the job at the worker has saved its Quiz as Completed and has not
\* returned yet: w.parsed and result are those the Quiz was built from
SavedByWorker(id) ==
    /\ w.job # 0
    /\ jobs[w.job].quizId = id
    /\ w.pc \in {"drive", "end"}
    /\ w.errorAt = "none"
    /\ w.loaded
    /\ IsCompleted(quizzes[id])

MajorLabel(label) ==
    toUpperCase(label.letters) \o <<" ">>
        \o SubSeq(label.number, 1, SpanLen(label.number, Digits))

\* C24: sanitizeSection maps a label made of a letter prefix (with or
\* without a duplicated CL or CLO in front, in any case), optional spaces and
\* a dotted number to the upper-cased letters, one space and the first
\* integer, and a label that is empty or white space to the default section.
C24_MajorLabel ==
    sect.pc = "done" =>
        sect.out = IF sect.label.kind = "blank" THEN DefaultSection
                   ELSE MajorLabel(sect.label)

\* ------------------------------------------------------------------------
\* The number and order of provider calls (checked under SpecOrch)
\* ------------------------------------------------------------------------

\* C25: for each chunk a provider's solveBatch is invoked at most maxRetries
\* times, and only when the provider is available; the providers are called
\* in the order of the list (Gemini, GitHub, Groq, HuggingFace); each of
\* the chunks of a solveQuestions call gets at most providers x maxRetries
\* solveBatch calls, which bounds the calls of solveQuestions by
\* chunks x providers x maxRetries.
C25_BoundedCalls ==
    lastCall.provider # "none" =>
        /\ lastCall.nth <= maxRetries
        /\ isAvailable(lastCall.provider)
        /\ lastCall.prev <= PlaceOf(lastCall.provider)
        /\ lastCall.chunk \in 1..ChunkCount(uncachedQuestions)
        /\ lastCall.chunk <= chunkNo
        /\ lastCall.total <= Len(providers) * maxRetries

\* in the second chunk the second available provider gets its first call,
\* after the first provider used up its maxRetries calls for that chunk
C25_Witness ==
    /\ chunkNo = 2
    /\ lastCall.chunk = 2
    /\ lastCall.prev # 0
    /\ lastCall.prev < PlaceOf(lastCall.provider)
    /\ lastCall.nth = 1
    /\ lastCall.total = maxRetries + 1

\* ------------------------------------------------------------------------
\* Retry and rate limit (checked under SpecOrch)
\* ------------------------------------------------------------------------

C29_RateLimitExpires ==
    [][(lastCall' # lastCall /\ lastCall'.provider # "none") =>
         LET call == lastCall'
         IN  /\ call.outcome = "answers" =>
                    rateLimitRemaining'[call.provider] # 0
             /\ (/\ call.outcome \in {"error", "invalid"}
                 /\ lastCall.provider = call.provider
                 /\ lastCall.outcome = "answers"
                 /\ call.nth < maxRetries) =>
                    /\ oPc' = "call"
                    /\ cp'.pi = cp.pi]_vars

\* ------------------------------------------------------------------------
\* Shared source files (checked under Spec)
\* ------------------------------------------------------------------------

\* the Quizzes other than that of the running job that point at the local
\* file path and have not been processed yet
WaitingOnFile(path) ==
    {id \in QuizIds :
        /\ quizzes[id].present
        /\ ~quizzes[id].isDeleted
        /\ quizzes[id].documentUrl = FileUrl(path)
        /\ quizzes[id].status \in {"pending", "processing"}
        /\ (w.job # 0 => id # jobs[w.job].quizId)}

\* C27: no step of a job (the cleanup after a failure, the unlink after the
\* Drive upload) removes a local file while another non-deleted Quiz that
\* references the same path has not been processed yet.
C27_SharedFileKept ==
    [][\A path \in QuizIds :
          (files[path].exists /\ ~files'[path].exists)
              => WaitingOnFile(path) = {}]_vars

\* ------------------------------------------------------------------------
\* Redelivered jobs (checked under SpecRedeliver)
\* ------------------------------------------------------------------------

\* the Quiz was saved as Completed by some run of its job
EverCompleted(quiz) ==
    quiz.present /\ (quiz.status = "completed" \/ Len(quiz.questions) > 0)

\* C28: a Quiz that has reached Completed is never deleted by the worker,
\* also when its job is run again after a shutdown and the local file is
\* gone: the record and its questions are still there afterwards.
C28_CompletedKept ==
    [][\A id \in QuizIds :
          EverCompleted(quizzes[id]) =>
              /\ quizzes'[id].present
              /\ quizzes'[id].questions = quizzes[id].questions]_vars

\* ------------------------------------------------------------------------
\* Termination of processing (checked under SpecLive)
\* ------------------------------------------------------------------------

\* the Quiz exists and waits for, or is in, processing
Unsettled(id) ==
    /\ quizzes[id].present
    /\ quizzes[id].status \in {"pending", "processing"}

\* C30: every Quiz created by an upload eventually leaves Pending and
\* Processing: with a fair queue and worker it ends up Completed or removed,
\* also when enqueueing or a store operation fails.
C30_EventuallySettled ==
    \A id \in QuizIds :
        Unsettled(id) ~>
            (~quizzes[id].present \/ quizzes[id].status = "completed")

====
